---- MODULE Spec2Model ----
(***************************************************************************)
(* Blogging REST backend: the bearer-token gate (authMiddleware), the      *)
(* token codec it calls, and the route handlers behind it, as a state      *)
(* machine over concurrently processed requests.  A request advances one   *)
(* step per action; the steps are the stretches of a handler between two   *)
(* awaits, which the single-threaded runtime executes without              *)
(* interleaving.                                                           *)
(***************************************************************************)
EXTENDS Integers, Sequences, FiniteSets, TLC

VARIABLES users, blogs, nextBlogId, issued, reqs

vars == <<users, blogs, nextBlogId, issued, reqs>>

(***************************************************************************)
(* Bounds of the model.                                                    *)
(***************************************************************************)
\* blog ids the SERIAL column hands out before the model stops creating
MaxBlogs == 1
\* the requests whose steps interleave
ReqIds == {"r1", "r2"}

(***************************************************************************)
(* Values.  A JSON value is tagged: an object carries its mapping in m, a  *)
(* number its value in n; Undefined is the value of an unset entry.        *)
(***************************************************************************)
EmptyMap == [k \in {} |-> 0]

ObjOf(m) == [t |-> "obj", m |-> m, n |-> 0]

NumOf(k) == [t |-> "num", m |-> EmptyMap, n |-> k]

Undefined == [t |-> "undef", m |-> EmptyMap, n |-> 0]

\* an emptiness test in place of the truthiness test
TruthyNonEmpty(v) == \/ (v.t = "obj" /\ DOMAIN v.m # {})
                     \/ (v.t = "num" /\ v.n # 0)

\* ToBoolean of the language: every object is truthy, the empty one too;
\* a number is truthy unless it is 0; undefined is falsy.
Truthy(v) == \/ v.t = "obj"
             \/ (v.t = "num" /\ v.n # 0)

\* c.get('user')?.id
UserIdOf(v) == IF v.t = "obj" /\ "id" \in DOMAIN v.m THEN NumOf(v.m.id) ELSE Undefined

(***************************************************************************)
(* Token codec (sign / verify of the JWT helper).  The payload segment is  *)
(* the JSON text of the claim: the entries of the mapping in key order.    *)
(* The signature segment is the keyed digest of that text.                 *)
(***************************************************************************)
KeyOrder == <<"id", "email", "password">>

IsNumKey(k) == k = "id"

RECURSIVE EntriesFrom(_, _)
EntriesFrom(m, i) ==
  IF i > Len(KeyOrder) THEN <<>>
  ELSE LET k == KeyOrder[i] IN
       IF k \in DOMAIN m
       THEN <<[k |-> k, num |-> IsNumKey(k),
               n |-> IF IsNumKey(k) THEN m[k] ELSE 0,
               s |-> IF IsNumKey(k) THEN "" ELSE m[k]]>> \o EntriesFrom(m, i + 1)
       ELSE EntriesFrom(m, i + 1)

\* JSON.stringify of the payload
Stringify(v) == [t |-> v.t, entries |-> EntriesFrom(v.m, 1), n |-> v.n]

\* JSON.parse of the payload segment
Parse(text) ==
  LET es == text.entries
      keys == {es[i].k : i \in DOMAIN es}
      at(k) == CHOOSE i \in DOMAIN es : es[i].k = k
  IN [t |-> text.t,
      m |-> [k \in keys |-> IF es[at(k)].num THEN es[at(k)].n ELSE es[at(k)].s],
      n |-> text.n]

\* keyed digest of the signing input
Digest(secret, text) == [key |-> secret, msg |-> text]

\* sign(payload, secret): three segments; no expiry claim is added
sign(payload, secret) ==
  LET text == Stringify(payload)
  IN [n |-> 3, payload |-> text, sig |-> Digest(secret, text)]

Returned(v) == [threw |-> FALSE, err |-> "", value |-> v]

Thrown(e) == [threw |-> TRUE, err |-> e, value |-> Undefined]

\* verify(token, secret): Malformed unless three segments, InvalidSignature
\* unless the recomputed signature matches, else the decoded payload
verify(token, secret) ==
  IF token.n # 3 THEN Thrown("Malformed")
  ELSE IF Digest(secret, token.payload) # token.sig THEN Thrown("InvalidSignature")
  ELSE Returned(Parse(token.payload))

(***************************************************************************)
(* Secrets.  Both call sites carry the literal.                            *)
(***************************************************************************)
SigninSecretOther == "OTHER_SECRET"

SigninSecret == "BLOG_SECRET"

GateSecret == "BLOG_SECRET"

Secrets == {"BLOG_SECRET", "OTHER_SECRET"}

(***************************************************************************)
(* Request bodies and the zod schemas.  StrLen is the length of the        *)
(* strings the model draws request bodies from.                            *)
(***************************************************************************)
StrLen(s) ==
  CASE s = "al" -> 2 [] s = "alice" -> 5 [] s = "bob" -> 3
    [] s = "a@b.com" -> 7 [] s = "c@d.com" -> 7
    [] s = "secret1" -> 7 [] s = "secret2" -> 7 [] s = "pw" -> 2
    [] s = "Hi" -> 2 [] s = "Hello" -> 5 [] s = "World" -> 5
    [] s = "A long body." -> 12 [] s = "Another body" -> 12
    [] OTHER -> 0

IsEmail(s) == s \in {"a@b.com", "c@d.com"}

UsernameMin == 3

PasswordMin == 6

TitleMin == 3

BodyMin == 10

TagsMax == 10

allowedTags == {"Tech Trends", "Productivity Tips", "Lifestyle Hacks",
                "Travel Adventures", "Health & Wellness", "Personal Development",
                "Creative Writing", "Sustainable Living", "Finance Tips",
                "Entrepreneurship"}

userSignupSchema(d) == /\ StrLen(d.username) >= UsernameMin
                       /\ IsEmail(d.email)
                       /\ StrLen(d.password) >= PasswordMin

userSigninSchema(d) == /\ IsEmail(d.email)
                       /\ StrLen(d.password) >= PasswordMin

blogPostSchema(d) == /\ StrLen(d.title) >= TitleMin
                     /\ StrLen(d.body) >= BodyMin
                     /\ \A i \in DOMAIN d.tags : d.tags[i] \in allowedTags
                     /\ Len(d.tags) <= TagsMax

SignupBodies == {[username |-> "alice", email |-> "a@b.com", password |-> "secret1"],
                 [username |-> "bob", email |-> "c@d.com", password |-> "secret2"],
                 [username |-> "al", email |-> "a@b.com", password |-> "secret1"]}

SigninBodies == {[email |-> "a@b.com", password |-> "secret1"],
                 [email |-> "c@d.com", password |-> "secret2"],
                 [email |-> "a@b.com", password |-> "secret2"],
                 [email |-> "a@b.com", password |-> "pw"]}

PostBodies == {[title |-> "Hello", body |-> "A long body.", tags |-> <<"Tech Trends">>],
               [title |-> "World", body |-> "Another body", tags |-> <<>>],
               [title |-> "Hi", body |-> "A long body.", tags |-> <<>>],
               [title |-> "Hello", body |-> "A long body.", tags |-> <<"Cooking">>]}

NoContent == [title |-> "", body |-> "", tags |-> <<>>]

\* the :id path parameter as text, and Number() of it
IdParams == {"1", "2", "abc"}

Number(p) == CASE p = "1" -> [nan |-> FALSE, v |-> 1]
               [] p = "2" -> [nan |-> FALSE, v |-> 2]
               [] OTHER -> [nan |-> TRUE, v |-> 0]

(***************************************************************************)
(* The Authorization header: absent, or a text made of its first seven     *)
(* characters (prefix) and what follows them (rest).                       *)
(***************************************************************************)
NoText == [n |-> 1, payload |-> Stringify(Undefined),
           sig |-> Digest("", Stringify(Undefined))]

TwoSegments == [n |-> 2, payload |-> Stringify(ObjOf([id |-> 1])),
                sig |-> Digest("", Stringify(Undefined))]

NoHeader == [present |-> FALSE, prefix |-> "", rest |-> NoText]

HeaderOf(prefix, token) == [present |-> TRUE, prefix |-> prefix, rest |-> token]

\* only the absence of the header checked
HeaderRejectedIfAbsent(h) == ~h.present

\* !authorizationHeader || !authorizationHeader.startsWith('Bearer ')
HeaderRejected(h) == \/ ~h.present
                     \/ h.prefix # "Bearer "

\* authorizationHeader.slice(7)
Slice7(h) == h.rest

\* the claim mappings a client that knows a secret can have signed
CraftedPayloads == {ObjOf(EmptyMap), NumOf(0)}

\* a token whose payload segment was replaced after signing
Tampered(t) == [t EXCEPT !.payload = Stringify(ObjOf([id |-> 2]))]

PresentableTokens ==
  issued \cup {Tampered(t) : t \in issued}
         \cup {sign(p, SigninSecret) : p \in CraftedPayloads}
         \cup {sign(ObjOf([id |-> 1, email |-> "a@b.com"]), "OTHER_SECRET"),
               NoText, TwoSegments}

PresentableHeaders ==
  {NoHeader, HeaderOf("Basic  ", NoText)}
     \cup {HeaderOf("Bearer ", t) : t \in PresentableTokens}
     \cup {HeaderOf("bearer ", t) : t \in issued}

(***************************************************************************)
(* Requests.                                                               *)
(***************************************************************************)
ProtectedRoutes == {"create", "myposts", "update", "delete"}

NoArg == [username |-> "", email |-> "", password |-> "",
          content |-> NoContent, id |-> [nan |-> TRUE, v |-> 0], userId |-> 0]

Idle == [pc |-> "idle", route |-> "", header |-> NoHeader, user |-> Undefined,
         verifyCalled |-> FALSE, nextCalled |-> FALSE,
         by |-> "", status |-> 0, kind |-> "", msg |-> "", arg |-> NoArg]

Response(status, kind, msg) == [rethrow |-> FALSE, status |-> status, kind |-> kind, msg |-> msg]

Rethrow == [rethrow |-> TRUE, status |-> 0, kind |-> "", msg |-> ""]

\* a handler whose catch block lets everything but validation errors through
HandlerCatchRethrows(route, err) ==
  IF err = "zod" THEN Response(400, "json", "ZodErrors") ELSE Rethrow

\* the catch block of a route handler
HandlerCatch(route, err) ==
  IF err = "zod" /\ route # "delete"
  THEN Response(400, "json", "ZodErrors")
  ELSE Response(500, "json", "Internal server error")

\* a catch block answering 401 as the other rejections do
GateCatch401 == Response(401, "json", "Invalid Token")

\* the catch block of authMiddleware
GateCatch == Response(400, "json", "Invalid Token")

\* the router's own answer to an exception no handler caught
RouterCatch == Response(500, "text", "Internal Server Error")

Answer(req, by, resp) ==
  [req EXCEPT !.pc = "done", !.by = by, !.status = resp.status,
              !.kind = resp.kind, !.msg = resp.msg, !.arg = NoArg]

\* the middleware forgets its return: it answers and the handler runs anyway
RejectAndProceed(req, resp) ==
  [Answer(req, "gate", resp) EXCEPT !.pc = "json", !.route = "create", !.nextCalled = TRUE]

\* return c.json(...) / return c.body(...) in authMiddleware
Reject(req, resp) == Answer(req, "gate", resp)

\* a handler returns resp
Return(req, resp) == Answer(req, "handler", resp)

\* a handler raises err: its catch block answers; what it lets through
\* reaches the try around next() in the gate, or the router
Raise(req, err) ==
  LET out == HandlerCatch(req.route, err)
  IN IF ~out.rethrow THEN Answer(req, "handler", out)
     ELSE IF req.nextCalled THEN Reject(req, GateCatch)
     ELSE Answer(req, "router", RouterCatch)

\* the claim kept in a variable all requests share
SetUserShared(rs, r, v) == [q \in DOMAIN rs |-> [rs[q] EXCEPT !.user = v]]

\* the claim never attached
SetUserDropped(rs, r, v) == rs

\* c.set('user', decoded)
SetUser(rs, r, v) == [rs EXCEPT ![r].user = v]

(***************************************************************************)
(* Persistence: the queries the handlers send.  A query either returns or  *)
(* raises; any query may also raise because the store is unreachable.      *)
(***************************************************************************)
\* prisma.user.findFirst({where: {OR: [{email}, {username}]}})
UserFindFirst(us, email, username) ==
  {i \in DOMAIN us : us[i].email = email \/ us[i].username = username}

\* prisma.user.create: the email column is unique
UserCreateRaises(us, d) == \E i \in DOMAIN us : us[i].email = d.email

UserCreate(us, d) ==
  Append(us, [id |-> Len(us) + 1, username |-> d.username,
              email |-> d.email, password |-> d.password])

\* prisma.user.findUnique({where: {email, password}})
UserFindUnique(us, email, password) ==
  {i \in DOMAIN us : us[i].email = email /\ us[i].password = password}

\* a payload that leaves the id out
SigninPayloadNoId(user) ==
  ObjOf([email |-> user.email, password |-> user.password])

\* the payload of the token signin returns
SigninPayload(user) ==
  ObjOf([id |-> user.id, email |-> user.email, password |-> user.password])

\* prisma.blog.create: userId references User(id)
BlogCreateRaises(us, userId) == userId \notin DOMAIN us

BlogCreate(bs, id, content, userId) ==
  bs \cup {[id |-> id, title |-> content.title, body |-> content.body,
            tags |-> content.tags, userId |-> userId]}

\* a where clause that leaves userId out
BlogWhereIdOnly(bs, id, userId) ==
  {b \in bs : ~id.nan /\ b.id = id.v}

\* the records where: {id, userId} selects
BlogWhere(bs, id, userId) ==
  {b \in bs : ~id.nan /\ b.id = id.v /\ b.userId = userId}

\* prisma.blog.update
BlogUpdate(bs, hit, content) ==
  (bs \ hit) \cup {[b EXCEPT !.title = content.title, !.body = content.body,
                             !.tags = content.tags] : b \in hit}

\* prisma.blog.delete
BlogDelete(bs, hit) == bs \ hit

\* prisma.blog.findMany({where: {userId}})
BlogFindMany(bs, userId) == {b \in bs : b.userId = userId}

(***************************************************************************)
(* Initial state: an empty store, no request in flight.                    *)
(***************************************************************************)
Init == /\ users = <<>>
        /\ blogs = {}
        /\ nextBlogId = 1
        /\ issued = {}
        /\ reqs = [r \in ReqIds |-> Idle]

Put(r, req) == reqs' = [reqs EXCEPT ![r] = req]

(***************************************************************************)
(* POST /users/signup                                                      *)
(***************************************************************************)
\* a request arrives on an open route and runs to await c.req.json()
Enter(r) ==
  /\ reqs[r].pc = "idle"
  /\ \E route \in {"signup", "signin"} :
       Put(r, [Idle EXCEPT !.pc = "json", !.route = route])
  /\ UNCHANGED <<users, blogs, nextBlogId, issued>>

\* the body is read and parsed; the lookup is sent
SignupParsed(r) ==
  /\ reqs[r].pc = "json" /\ reqs[r].route = "signup"
  /\ \E ok \in BOOLEAN, d \in SignupBodies :
       Put(r, IF ~ok THEN Raise(reqs[r], "json")
              ELSE IF ~userSignupSchema(d) THEN Raise(reqs[r], "zod")
              ELSE [reqs[r] EXCEPT !.pc = "find", !.arg.username = d.username,
                                   !.arg.email = d.email, !.arg.password = d.password])
  /\ UNCHANGED <<users, blogs, nextBlogId, issued>>

\* findFirst answers; the insert is sent unless a user exists
SignupFound(r) ==
  /\ reqs[r].pc = "find" /\ reqs[r].route = "signup"
  /\ \E dbok \in BOOLEAN :
       Put(r, IF ~dbok THEN Raise(reqs[r], "db")
              ELSE IF UserFindFirst(users, reqs[r].arg.email, reqs[r].arg.username) # {}
              THEN Return(reqs[r], Response(400, "json", "Email or username already exists"))
              ELSE [reqs[r] EXCEPT !.pc = "db"])
  /\ UNCHANGED <<users, blogs, nextBlogId, issued>>

\* create answers
SignupCreated(r) ==
  /\ reqs[r].pc = "db" /\ reqs[r].route = "signup"
  /\ \E dbok \in BOOLEAN :
       IF ~dbok \/ UserCreateRaises(users, reqs[r].arg)
       THEN /\ Put(r, Raise(reqs[r], "db"))
            /\ UNCHANGED users
       ELSE /\ users' = UserCreate(users, reqs[r].arg)
            /\ Put(r, Return(reqs[r], Response(201, "json", "User created successfully")))
  /\ UNCHANGED <<blogs, nextBlogId, issued>>

(***************************************************************************)
(* POST /users/signin                                                      *)
(***************************************************************************)
SigninParsed(r) ==
  /\ reqs[r].pc = "json" /\ reqs[r].route = "signin"
  /\ \E ok \in BOOLEAN, d \in SigninBodies :
       Put(r, IF ~ok THEN Raise(reqs[r], "json")
              ELSE IF ~userSigninSchema(d) THEN Raise(reqs[r], "zod")
              ELSE [reqs[r] EXCEPT !.pc = "find", !.arg.email = d.email,
                                   !.arg.password = d.password])
  /\ UNCHANGED <<users, blogs, nextBlogId, issued>>

\* findUnique answers; a user found is signed a token, which the response carries
SigninFound(r) ==
  /\ reqs[r].pc = "find" /\ reqs[r].route = "signin"
  /\ \E dbok \in BOOLEAN :
       LET hit == UserFindUnique(users, reqs[r].arg.email, reqs[r].arg.password) IN
       IF ~dbok
       THEN /\ Put(r, Raise(reqs[r], "db"))
            /\ UNCHANGED issued
       ELSE IF hit = {}
       THEN /\ Put(r, Return(reqs[r], Response(400, "json", "Invalid email or password")))
            /\ UNCHANGED issued
       ELSE /\ issued' = issued \cup {sign(SigninPayload(users[CHOOSE i \in hit : TRUE]),
                                           SigninSecret)}
            /\ Put(r, Return(reqs[r], Response(200, "json", "Sign in successful")))
  /\ UNCHANGED <<users, blogs, nextBlogId>>

(***************************************************************************)
(* authMiddleware                                                          *)
(***************************************************************************)
AccessDenied == Response(401, "json", "Access Denied. No token provided.")

Unauthorized == Response(401, "text", "You are an unauthorized user, sorry")

UserIdRequired == Response(400, "json", "User ID is required")

\* next(): the handler of the request's route starts and runs to its first
\* await.  DELETE reads no body: it checks the user id and sends its query
\* at once.
HandlerStart(req, route, p) ==
  LET r2 == [req EXCEPT !.nextCalled = TRUE, !.route = route]
      userId == UserIdOf(req.user)
  IN IF route = "delete"
     THEN IF ~Truthy(userId) THEN Return(r2, UserIdRequired)
          ELSE [r2 EXCEPT !.pc = "db", !.arg.id = Number(p), !.arg.userId = userId.n]
     ELSE [r2 EXCEPT !.pc = "json"]

\* a request arrives on a protected route: the header is read and checked,
\* and verify is called on what follows 'Bearer '.  The gate is the same on
\* every protected route; which one the request is on is read when next()
\* dispatches.
GateEnter(r) ==
  /\ reqs[r].pc = "idle"
  /\ \E h \in PresentableHeaders :
       LET req == [Idle EXCEPT !.header = h] IN
       Put(r, IF HeaderRejected(h) THEN Reject(req, AccessDenied)
              ELSE [req EXCEPT !.pc = "verify", !.verifyCalled = TRUE])
  /\ UNCHANGED <<users, blogs, nextBlogId, issued>>

\* verify settles
GateVerified(r) ==
  /\ reqs[r].pc = "verify"
  /\ \E route \in ProtectedRoutes, p \in IdParams :
       LET decoded == verify(Slice7(reqs[r].header), GateSecret) IN
       IF decoded.threw THEN Put(r, Reject(reqs[r], GateCatch))
       ELSE IF Truthy(decoded.value)
       THEN LET rs == SetUser(reqs, r, decoded.value)
            IN reqs' = [rs EXCEPT ![r] = HandlerStart(rs[r], route, p)]
       ELSE Put(r, Reject(reqs[r], Unauthorized))
  /\ UNCHANGED <<users, blogs, nextBlogId, issued>>

(***************************************************************************)
(* POST /posts, PUT /posts/:id, GET /myposts, DELETE /posts/:id            *)
(***************************************************************************)
\* POST and PUT: the body is read and parsed, the user id checked, the query sent
PostParsed(r) ==
  /\ reqs[r].pc = "json" /\ reqs[r].route \in {"create", "update"}
  /\ \E ok \in BOOLEAN, d \in PostBodies, p \in IdParams :
       LET userId == UserIdOf(reqs[r].user) IN
       Put(r, IF ~ok THEN Raise(reqs[r], "json")
              ELSE IF ~blogPostSchema(d) THEN Raise(reqs[r], "zod")
              ELSE IF ~Truthy(userId) THEN Return(reqs[r], UserIdRequired)
              ELSE [reqs[r] EXCEPT !.pc = "db", !.arg.content = d, !.arg.userId = userId.n,
                      !.arg.id = IF reqs[r].route = "update" THEN Number(p) ELSE NoArg.id])
  /\ UNCHANGED <<users, blogs, nextBlogId, issued>>

MyPostsParsed(r) ==
  /\ reqs[r].pc = "json" /\ reqs[r].route = "myposts"
  /\ \E ok \in BOOLEAN :
       LET userId == UserIdOf(reqs[r].user) IN
       Put(r, IF ~ok THEN Raise(reqs[r], "json")
              ELSE IF ~Truthy(userId) THEN Return(reqs[r], UserIdRequired)
              ELSE [reqs[r] EXCEPT !.pc = "db", !.arg.userId = userId.n])
  /\ UNCHANGED <<users, blogs, nextBlogId, issued>>

CreateBlog(r) ==
  /\ reqs[r].pc = "db" /\ reqs[r].route = "create"
  /\ \E dbok \in BOOLEAN :
       IF ~dbok \/ nextBlogId > MaxBlogs \/ BlogCreateRaises(users, reqs[r].arg.userId)
       THEN /\ Put(r, Raise(reqs[r], "db"))
            /\ UNCHANGED <<blogs, nextBlogId>>
       ELSE /\ blogs' = BlogCreate(blogs, nextBlogId, reqs[r].arg.content, reqs[r].arg.userId)
            /\ nextBlogId' = nextBlogId + 1
            /\ Put(r, Return(reqs[r], Response(200, "json", "Blog created successfully")))
  /\ UNCHANGED <<users, issued>>

UpdateBlog(r) ==
  /\ reqs[r].pc = "db" /\ reqs[r].route = "update"
  /\ \E dbok \in BOOLEAN :
       LET hit == BlogWhere(blogs, reqs[r].arg.id, reqs[r].arg.userId) IN
       IF ~dbok \/ hit = {}
       THEN /\ Put(r, Raise(reqs[r], "db"))
            /\ UNCHANGED blogs
       ELSE /\ blogs' = BlogUpdate(blogs, hit, reqs[r].arg.content)
            /\ Put(r, Return(reqs[r], Response(200, "json", "Blog updated successfully")))
  /\ UNCHANGED <<users, nextBlogId, issued>>

DeleteBlog(r) ==
  /\ reqs[r].pc = "db" /\ reqs[r].route = "delete"
  /\ \E dbok \in BOOLEAN :
       LET hit == BlogWhere(blogs, reqs[r].arg.id, reqs[r].arg.userId) IN
       IF ~dbok \/ hit = {}
       THEN /\ Put(r, Raise(reqs[r], "db"))
            /\ UNCHANGED blogs
       ELSE /\ blogs' = BlogDelete(blogs, hit)
            /\ Put(r, Return(reqs[r], Response(200, "json", "Blog deleted successfully")))
  /\ UNCHANGED <<users, nextBlogId, issued>>

FindMyPosts(r) ==
  /\ reqs[r].pc = "db" /\ reqs[r].route = "myposts"
  /\ \E dbok \in BOOLEAN :
       Put(r, IF ~dbok THEN Raise(reqs[r], "db")
              ELSE Return(reqs[r], Response(200, "json", "Blog fetched successfully")))
  /\ UNCHANGED <<users, blogs, nextBlogId, issued>>

\* the response is sent and the request is over
Finish(r) ==
  /\ reqs[r].pc = "done"
  /\ Put(r, Idle)
  /\ UNCHANGED <<users, blogs, nextBlogId, issued>>

Next == \E r \in ReqIds :
          \/ Enter(r)
          \/ SignupParsed(r)
          \/ SignupFound(r)
          \/ SignupCreated(r)
          \/ SigninParsed(r)
          \/ SigninFound(r)
          \/ GateEnter(r)
          \/ GateVerified(r)
          \/ PostParsed(r)
          \/ MyPostsParsed(r)
          \/ CreateBlog(r)
          \/ UpdateBlog(r)
          \/ DeleteBlog(r)
          \/ FindMyPosts(r)
          \/ Finish(r)

Spec == Init /\ [][Next]_vars

(***************************************************************************)
(* Properties.                                                             *)
(***************************************************************************)
ServiceSecret == "BLOG_SECRET"

\* the claim mappings of string and number scalars the properties range over
ClaimMaps ==
  {[k \in ks |-> CASE k = "id" -> i [] k = "email" -> e [] OTHER -> pw] :
       ks \in SUBSET {"id", "email", "password"}, i \in {0, 1, 2},
       e \in {"a@b.com", "c@d.com"}, pw \in {"secret1", "secret2"}}

\* the token the service secret signs over each of them
ServiceToken == [c \in ClaimMaps |-> sign(ObjOf(c), ServiceSecret)]

\* a request that entered through the gate
Gated(q) == q.pc # "idle" /\ q.route \notin {"signup", "signin"}

\* ... and whose verification has settled
Settled(q) == Gated(q) /\ q.pc # "verify"

Bearer(q) == q.header.present /\ q.header.prefix = "Bearer "

AnsweredBy(q, by, status, kind, msg) ==
  /\ q.pc = "done" /\ q.by = by
  /\ q.status = status /\ q.kind = kind /\ q.msg = msg

\* the token is three segments signed with secret over the payload text
SignedWith(t, secret) == t.n = 3 /\ t.sig = [key |-> secret, msg |-> t.payload]

\* C1: a request to a protected route whose Authorization header is absent
\* or does not start with 'Bearer ' is answered 401 {message: 'Access
\* Denied. No token provided.'}; verify is not called and the next handler is
\* not invoked.
C1_NoTokenDenied ==
  \A r \in ReqIds :
    LET q == reqs[r] IN
    (Gated(q) /\ ~Bearer(q)) =>
       /\ AnsweredBy(q, "gate", 401, "json", "Access Denied. No token provided.")
       /\ ~q.verifyCalled
       /\ ~q.nextCalled

\* a token signin issued, presented under the scheme 'bearer ', was denied
C1_Witness ==
  \E r \in ReqIds :
    /\ reqs[r].pc = "done" /\ reqs[r].status = 401
    /\ reqs[r].header.prefix = "bearer "
    /\ reqs[r].header.rest \in issued

\* C2: for a request carrying 'Bearer <token>' whose token was signed with
\* the service secret over a claim mapping, the gate attaches exactly that
\* claim as 'user', invokes the next handler, and the handler reads the id
\* that was signed.
C2_ClaimAttached ==
  \A r \in ReqIds :
    LET q == reqs[r] IN
    (Settled(q) /\ Bearer(q)) =>
       \A c \in ClaimMaps :
          q.header.rest = ServiceToken[c] =>
             /\ q.user = ObjOf(c)
             /\ q.nextCalled
             /\ q.by # "gate"
             /\ (q.pc = "db" => "id" \in DOMAIN c /\ q.arg.userId = c.id)

\* the handler of POST /posts holds the id signed into user 2's token
C2_Witness ==
  \E r \in ReqIds :
    /\ reqs[r].pc = "db" /\ reqs[r].route = "create"
    /\ reqs[r].header.rest \in issued
    /\ reqs[r].user.m.id = 2 /\ reqs[r].arg.userId = 2

\* C3: a request whose bearer token makes verification raise (signed with
\* a different secret, or not three dot-separated segments) is answered 400
\* {message: 'Invalid Token'} and the next handler is not invoked.
C3_InvalidToken ==
  \A r \in ReqIds :
    LET q == reqs[r]
        t == q.header.rest
    IN (Settled(q) /\ Bearer(q)
          /\ (t.n # 3 \/ \E s \in Secrets \ {ServiceSecret} : SignedWith(t, s))) =>
       /\ AnsweredBy(q, "gate", 400, "json", "Invalid Token")
       /\ ~q.nextCalled

\* one request with a token signed with another secret and one with a
\* two-segment token have both been answered
C3_Witness ==
  /\ \E r \in ReqIds : /\ reqs[r].pc = "done" /\ Bearer(reqs[r])
                       /\ SignedWith(reqs[r].header.rest, "OTHER_SECRET")
  /\ \E r \in ReqIds : /\ reqs[r].pc = "done" /\ Bearer(reqs[r])
                       /\ reqs[r].header.rest.n = 2

\* C4 as stated: a falsy or empty verification result (a correctly signed
\* token whose claim mapping is empty included) is answered 401 with the
\* plain text 'You are an unauthorized user, sorry', no user attached and
\* the next handler not invoked; only a non-empty claim proceeds.
C4_Original ==
  \A r \in ReqIds :
    LET q == reqs[r] IN
    /\ (Settled(q) /\ Bearer(q)
          /\ q.header.rest \in {sign(NumOf(0), ServiceSecret),
                                sign(ObjOf(EmptyMap), ServiceSecret)}) =>
          /\ AnsweredBy(q, "gate", 401, "text", "You are an unauthorized user, sorry")
          /\ q.user = Undefined
          /\ ~q.nextCalled
    /\ (Gated(q) /\ q.nextCalled) => (q.user.t = "obj" /\ DOMAIN q.user.m # {})

\* C4 amended: a falsy verification result is answered 401 with the plain
\* text, no user attached and the next handler not invoked; every truthy
\* result, the empty claim mapping included, is attached and proceeds.
C4_FalsyRejected ==
  \A r \in ReqIds :
    LET q == reqs[r] IN
    /\ (Settled(q) /\ Bearer(q) /\ q.header.rest = sign(NumOf(0), ServiceSecret)) =>
          /\ AnsweredBy(q, "gate", 401, "text", "You are an unauthorized user, sorry")
          /\ q.user = Undefined
          /\ ~q.nextCalled
    /\ (Settled(q) /\ Bearer(q) /\ q.header.rest = sign(ObjOf(EmptyMap), ServiceSecret)) =>
          /\ q.user = ObjOf(EmptyMap)
          /\ q.nextCalled
          /\ q.by # "gate"
    /\ (Gated(q) /\ q.nextCalled) => q.user.t = "obj"

\* the token of the number 0 was answered 401 while the token of the empty
\* mapping reached a handler
C4_Witness ==
  /\ \E r \in ReqIds : /\ reqs[r].pc = "done" /\ reqs[r].by = "gate"
                       /\ reqs[r].header.rest = sign(NumOf(0), ServiceSecret)
  /\ \E r \in ReqIds : /\ reqs[r].nextCalled
                       /\ reqs[r].header.rest = sign(ObjOf(EmptyMap), ServiceSecret)

\* C5: every request the gate rejects is answered at the gate: its route
\* handler never runs, its 'user' entry stays unset, and the step that
\* rejects it changes neither users nor blogs.
C5_RejectionFrame ==
  [][\A r \in ReqIds :
       reqs'[r].by = "gate" =>
          /\ reqs'[r].pc = "done"
          /\ reqs'[r].status \in {400, 401}
          /\ ~reqs'[r].nextCalled
          /\ reqs'[r].user = Undefined
          /\ (reqs[r].by # "gate" =>
                users' = users /\ blogs' = blogs /\ nextBlogId' = nextBlogId)]_vars

\* with a blog stored, a missing header, a foreign signature and a
\* malformed token have been rejected
C5_Witness ==
  /\ blogs # {}
  /\ \E r \in ReqIds : reqs[r].by = "gate" /\ reqs[r].status = 401
  /\ \E r \in ReqIds : /\ reqs[r].by = "gate" /\ reqs[r].status = 400
                       /\ reqs[r].header.rest.n = 3

\* verify(sign(claim, secret), secret) returns the claim, for every claim
\* mapping and secret
CodecRoundTrip ==
  \A c \in ClaimMaps : \A s \in Secrets :
     verify(sign(ObjOf(c), s), s) = [threw |-> FALSE, err |-> "", value |-> ObjOf(c)]

C7_TokenStaysValid ==
  /\ [][issued \subseteq issued']_vars
  /\ [](\A r \in ReqIds :
          LET q == reqs[r] IN
          (Settled(q) /\ Bearer(q) /\ q.header.rest \in issued) =>
             /\ q.nextCalled
             /\ q.user.t = "obj"
             /\ q.by # "gate")

\* both requests in flight pass with the first user's token after a second
\* signup, a second signin and the creation and deletion of a blog: the one
\* whose slot served the last of those operations arrived after all of them
C7_Witness ==
  /\ \A r \in ReqIds :
       /\ reqs[r].nextCalled /\ reqs[r].header.rest \in issued
       /\ reqs[r].user.m.id = 1
  /\ Len(users) = 2 /\ Cardinality(issued) = 2
  /\ blogs = {} /\ nextBlogId > 1

\* what the gate does with a header, as a function of the header alone
GateOutcome(h) ==
  LET t == h.rest
      d == verify(t, ServiceSecret)
  IN IF ~h.present \/ h.prefix # "Bearer "
     THEN [proceed |-> FALSE, user |-> Undefined, status |-> 401, kind |-> "json",
           msg |-> "Access Denied. No token provided."]
     ELSE IF d.threw
     THEN [proceed |-> FALSE, user |-> Undefined, status |-> 400, kind |-> "json",
           msg |-> "Invalid Token"]
     ELSE IF d.value.t = "obj"
     THEN [proceed |-> TRUE, user |-> d.value, status |-> 0, kind |-> "", msg |-> ""]
     ELSE [proceed |-> FALSE, user |-> Undefined, status |-> 401, kind |-> "text",
           msg |-> "You are an unauthorized user, sorry"]

\* C8: under every interleaving of the steps of the requests in flight,
\* the outcome of a request (proceed / 401 / 400) and the 'user' its handler
\* sees are those its own Authorization header determines.
C8_Independent ==
  \A r \in ReqIds :
    LET q == reqs[r]
        e == GateOutcome(q.header)
    IN /\ (Gated(q) /\ q.pc = "verify") => (q.user = Undefined /\ ~q.nextCalled)
       /\ Settled(q) =>
            /\ q.user = e.user
            /\ q.nextCalled = e.proceed
            /\ (~e.proceed => AnsweredBy(q, "gate", e.status, e.kind, e.msg))
            /\ (e.proceed => q.by # "gate")
            /\ (q.pc = "db" => q.arg.userId = e.user.m.id)

\* two handlers wait for the store at once, each holding its own user's id
C8_Witness ==
  /\ reqs["r1"].pc = "db" /\ reqs["r2"].pc = "db"
  /\ reqs["r1"].route \in ProtectedRoutes /\ reqs["r2"].route \in ProtectedRoutes
  /\ reqs["r1"].arg.userId = 1 /\ reqs["r2"].arg.userId = 2

\* C9: the gate answers 400 {message: 'Invalid Token'} only when the
\* verification of the token raised; once the next handler has been invoked
\* the response is the handler's, also when the handler failed.
C9_InvalidTokenOnlyFromVerify ==
  \A r \in ReqIds :
    LET q == reqs[r]
        t == q.header.rest
    IN /\ (q.pc = "done" /\ q.msg = "Invalid Token") =>
            /\ q.verifyCalled /\ ~q.nextCalled
            /\ (t.n # 3 \/ ~SignedWith(t, ServiceSecret))
       /\ (q.pc = "done" /\ q.nextCalled) => q.by = "handler"

\* a handler behind the gate failed and answered 500 itself
C9_Witness ==
  \E r \in ReqIds :
    /\ reqs[r].pc = "done" /\ reqs[r].nextCalled
    /\ reqs[r].status = 500 /\ reqs[r].msg = "Internal server error"

\* the id the verified token of a request carries
VerifiedIds(q) ==
  LET d == verify(q.header.rest, ServiceSecret)
  IN IF Bearer(q) /\ ~d.threw /\ d.value.t = "obj" /\ "id" \in DOMAIN d.value.m
     THEN {d.value.m.id} ELSE {}

\* the step completes the store query of request r on one of routes
Completes(r, routes) ==
  /\ reqs[r].pc = "db" /\ reqs[r].route \in routes
  /\ reqs'[r].pc = "done"

\* C10: a blog changes or disappears only in a step of a PUT or DELETE on
\* its id whose verified token carries the blog's userId; a PUT or DELETE
\* whose token carries another id leaves the blogs as they are and does not
\* answer success; a blog is created with the id of the creating token.
C10_Ownership ==
  [][/\ \A b \in blogs :
          b \notin blogs' =>
            \E r \in ReqIds :
               /\ Completes(r, {"update", "delete"})
               /\ ~reqs[r].arg.id.nan /\ reqs[r].arg.id.v = b.id
               /\ b.userId \in VerifiedIds(reqs[r])
     /\ \A b \in blogs' :
          b.id \notin {x.id : x \in blogs} =>
            \E r \in ReqIds :
               /\ Completes(r, {"create"})
               /\ b.userId \in VerifiedIds(reqs[r])
     /\ \A r \in ReqIds :
          (/\ Completes(r, {"update", "delete"})
           /\ ~\E b \in blogs : /\ ~reqs[r].arg.id.nan /\ b.id = reqs[r].arg.id.v
                                /\ b.userId \in VerifiedIds(reqs[r])) =>
            /\ blogs' = blogs
            /\ reqs'[r].msg \notin {"Blog updated successfully",
                                    "Blog deleted successfully"}]_vars

\* the second user's PUT and DELETE were answered 500 and the first
\* user's blog is still stored
C10_Witness ==
  /\ \E b \in blogs : b.userId = 1
  /\ \A b \in blogs : b.userId = 1
  /\ \A r \in ReqIds : /\ reqs[r].pc = "done" /\ reqs[r].status = 500
                       /\ reqs[r].user.m = [id |-> 2, email |-> "c@d.com",
                                            password |-> "secret2"]
  /\ reqs["r1"].route = "update" /\ reqs["r2"].route = "delete"

====
